---- MODULE Spec2Model ----
(***************************************************************************)
(* The upload pipeline of ProCheck's backend: DocumentProcessor            *)
(* (backend/services/document_processor.py) and the endpoints of           *)
(* backend/main.py that drive it.                                          *)
(*                                                                         *)
(* The backend is one asyncio event loop.  A coroutine runs without        *)
(* interruption from one suspension point (an await that really yields:    *)
(* asyncio.sleep(0), asyncio.to_thread) to the next, so every action below *)
(* is one such run: either a whole request handler (none of the handlers   *)
(* modelled here suspends after its request body has been read), or one    *)
(* resumption of a pipeline task up to its next suspension or its end.     *)
(* The coroutines store_protocols_for_preview and cleanup_temp_files hold  *)
(* no await that yields; awaiting them does not suspend the caller.        *)
(***************************************************************************)
EXTENDS Integers, Sequences, FiniteSets, TLC

(***************************************************************************)
(* Bounds of the model and the inputs drawn by the actions.                *)
(***************************************************************************)
\* Tasks created over one behaviour.
MaxTasks == 2

Users == {"u1"}
UploadIds == {"f1"}

\* upload_key = f"{user_id}_{upload_id}"
UploadKey(user_id, upload_id) == user_id \o "_" \o upload_id

Keys == {UploadKey(u, f) : u \in Users, f \in UploadIds}

\* The four passes of the generator, in the order of the list.
protocol_types == <<"diagnostic", "treatment", "emergency", "prevention">>

\* chunks[:5]
ChunkCap == 5

\* Positional arguments (after self) that process_upload declares:
\* user_id, zip_content, upload_id, custom_prompt.
ProcessUploadParams == 4
\* Positional arguments that wrapped_process_upload of main.py passes: the
\* same four and file.filename.  Python rejects the call with TypeError, so
\* a task created by the endpoint as written ends on its first run without
\* entering process_upload.  The model draws both calls: process_upload
\* called with its declared parameters, and the endpoint's call.
IntakeArgs == 5

(***************************************************************************)
(* generate_protocol_from_chunk of upload_protocol_generator.py: one       *)
(* (chunk, category) combination sent to the generative model.             *)
(***************************************************************************)
\* max_retries = 1: the attempts of the loop, for attempt in range(max_retries).
max_retries == 1

\* Steps of a checklist drawn by the generator's own specification.
MaxSteps == 2

\* len(explanation.strip()) of the steps drawn: none, one short of the
\* threshold, at the threshold.
ExplanationLengths == {0, 9, 10}
CitationIndexes == {0, 1}

\* A checklist item: the length of its stripped explanation and its
\* citation index.
Step(explanation, citation) == [explanation |-> explanation, citation |-> citation]

\* What one _model.generate_content call gives:
\*   kind       "error": the call raises; "blank": no text in the response;
\*              "garbage": text that json.loads rejects; "list": JSON that
\*              is not an object; "json": a JSON object
\*   checklist  data["checklist"], the steps
\*   citations  len(data["citations"])
ModelAnswer(kind, checklist, citations) ==
    [kind |-> kind, checklist |-> checklist, citations |-> citations]

\* Steps counted by _validate_protocol_response.
missing_explanations(checklist) ==
    Cardinality({n \in DOMAIN checklist : checklist[n].explanation < 10})

missing_citations(checklist) ==
    Cardinality({n \in DOMAIN checklist : checklist[n].citation = 0})

\* A validation that did not look at the citations array.
validate_protocol_responseIgnoresCitations(data) ==
    IF data.kind # "json" THEN FALSE
    ELSE IF data.checklist = <<>> THEN TRUE
    ELSE IF 2 * missing_explanations(data.checklist) > Len(data.checklist) THEN FALSE
    ELSE IF 2 * missing_citations(data.checklist) > Len(data.checklist) THEN FALSE
    ELSE TRUE

\* _validate_protocol_response: is_valid.  missing > total_steps * 0.5 is
\* 2 * missing > total_steps.
validate_protocol_response(data) ==
    IF data.kind # "json" THEN FALSE
    ELSE IF data.checklist = <<>> THEN TRUE
    ELSE IF data.citations = 0 THEN FALSE
    ELSE IF 2 * missing_explanations(data.checklist) > Len(data.checklist) THEN FALSE
    ELSE IF 2 * missing_citations(data.checklist) > Len(data.checklist) THEN FALSE
    ELSE TRUE

\* The dict that generate_protocol_from_chunk returns.
GeneratorResult(checklist, citations) == [checklist |-> checklist, citations |-> citations]

\* "Fallback - return empty protocol"
FallbackResult == GeneratorResult(<<>>, 0)

\* Whether iteration `attempt` (from 0) of the retry loop returns the answer
\* as the result; otherwise it continues, or falls out of the loop when it
\* is the last.  An error, an empty text and a JSON parse error continue.  A
\* JSON object that fails the validation is retried while attempts are
\* left and used as it is on the last one.  JSON that is not an object
\* fails the validation and, on the last attempt, raises on data.get,
\* which the loop's except Exception catches.
AttemptReturns(answer, attempt) ==
    /\ answer.kind = "json"
    /\ validate_protocol_response(answer) \/ ~(attempt < max_retries - 1)

\* current_prompt of the attempt: the base prompt, with the "CRITICAL:
\* Previous response was incomplete" text appended on a retry.
CurrentPrompt(attempt) ==
    IF attempt = 0 THEN <<"base_prompt">> ELSE <<"base_prompt", "intensified">>

\* The loop from iteration `attempt` on; answers[n] is the model's answer
\* to the n-th invocation.
RECURSIVE GenerateFrom(_, _)
GenerateFrom(answers, attempt) ==
    IF attempt >= max_retries THEN FallbackResult
    ELSE IF AttemptReturns(answers[attempt + 1], attempt)
         THEN GeneratorResult(answers[attempt + 1].checklist, answers[attempt + 1].citations)
         ELSE GenerateFrom(answers, attempt + 1)

generate_protocol_from_chunk(answers) == GenerateFrom(answers, 0)

\* Answers used by the pipeline's archives.
CompleteAnswer == ModelAnswer("json", <<Step(40, 1), Step(25, 1)>>, 1)
\* Three of four steps without an explanation.
IncompleteAnswer == ModelAnswer("json", <<Step(30, 1), Step(0, 1), Step(0, 1), Step(0, 1)>>, 1)
NothingFoundAnswer == ModelAnswer("json", <<>>, 0)
GarbageAnswer == ModelAnswer("garbage", <<>>, 0)

(***************************************************************************)
(* An uploaded file, as far as the pipeline can tell files apart:          *)
(*   zip      "bad": zipfile.ZipFile raises BadZipFile; "ok": it opens;    *)
(*            "pdf": the bytes are one document, not an archive            *)
(*   entries  the archive's entries in order: "other" (not a .pdf, or a    *)
(*            directory), "pdf_ok" (text of more than 100 characters),     *)
(*            "pdf_thin" (one page, at most 100 characters of text),       *)
(*            "pdf_corrupt" (both PDF libraries raise on it)               *)
(*   nchunks  chunks that create_semantic_chunks cuts from a pdf_ok text   *)
(*   resp     what the generative model answers for this file's chunks     *)
(***************************************************************************)
Archive(zip, entries, nchunks, resp) ==
    [zip |-> zip, entries |-> entries, nchunks |-> nchunks, resp |-> resp]

Archives ==
    { Archive("bad", <<>>, 0, "none"),
      Archive("ok", <<"other">>, 0, "none"),
      Archive("ok", <<"pdf_thin">>, 0, "none"),
      Archive("ok", <<"pdf_corrupt">>, 0, "none"),
      Archive("ok", <<"pdf_ok">>, 1, "mixed") }

\* The model's answers to the successive invocations made for chunk i and
\* pass j of a file.
ModelAnswers(resp, i, j) ==
    CASE resp = "all"   -> <<CompleteAnswer, CompleteAnswer>>
      [] resp = "untitled" -> (IF j <= 2 THEN <<CompleteAnswer, CompleteAnswer>>
                               ELSE <<NothingFoundAnswer, NothingFoundAnswer>>)
      [] resp = "mixed" -> (CASE j = 1 -> <<CompleteAnswer, CompleteAnswer>>
                              [] j = 2 -> <<GarbageAnswer, GarbageAnswer>>
                              [] OTHER -> <<IncompleteAnswer, CompleteAnswer>>)
      [] OTHER          -> <<NothingFoundAnswer, NothingFoundAnswer>>

\* result["title"] of generate_protocol_from_chunk for chunk i and pass j:
\* str(data.get("title", ...)).strip(), blank when the model's answer has
\* a blank title.
AnswerTitle(resp, i, j) ==
    IF resp = "untitled" /\ j = 2 THEN "" ELSE "Protocol"

\* The call in the thread raises instead of returning (_ensure_client, or
\* the thread itself).
CallRaises(resp, i, j) == resp = "mixed" /\ j = 3

\* The outcome of generate_protocol_from_chunk for chunk i and pass j:
\* "steps" (a non-empty checklist), "empty" (an empty checklist), "raise".
Response(resp, i, j) ==
    IF CallRaises(resp, i, j) THEN "raise"
    ELSE IF generate_protocol_from_chunk(ModelAnswers(resp, i, j)).checklist # <<>>
         THEN "steps"
         ELSE "empty"

\* A file of two documents of three chunks each: six chunks, one more than
\* the generator takes.
LongArchive == Archive("ok", <<"pdf_ok", "pdf_ok">>, 3, "all")

\* A file of one document in whose one chunk the model finds no protocol of
\* any category.
EmptyArchive == Archive("ok", <<"pdf_ok">>, 1, "none")

\* Files of two documents of which one is usable: the other has too little
\* text, or its extraction raises.
MixedArchives ==
    { Archive("ok", <<"pdf_thin", "pdf_ok">>, 1, "all"),
      Archive("ok", <<"pdf_ok", "pdf_corrupt">>, 1, "all") }

\* An upload whose bytes are one usable document, not an archive: the
\* intake accepts a name ending in .pdf.
SingleDocument == Archive("pdf", <<"pdf_ok">>, 1, "all")

\* The same document, alone in an archive.
ArchiveOfOneDocument == Archive("ok", <<"pdf_ok">>, 1, "all")

\* A file of one document for whose chunk the model gives steps in the
\* first two passes, with a blank title in the second.
UntitledArchive == Archive("ok", <<"pdf_ok">>, 1, "untitled")

\* The files drawn for a session that is followed by a review.
ReviewArchives == Archives \cup {UntitledArchive}

\* The files drawn for a single upload session.
SessionArchives ==
    Archives \cup {LongArchive, EmptyArchive, SingleDocument, ArchiveOfOneDocument}
             \cup MixedArchives

\* zipfile.ZipFile(BytesIO(zip_content)) opens the bytes: only those of an
\* archive; any other bytes, a document's included, raise BadZipFile.
ZipOpens(arch) == arch.zip = "ok"

\* pdf_files of extract_zip: the .pdf entries, in archive order.
PdfFiles(arch) == SelectSeq(arch.entries, LAMBDA e : e # "other")

\* An extraction that kept the documents with too little text.
DocumentsKeepsThin(arch) == SelectSeq(PdfFiles(arch), LAMBDA e : e # "pdf_corrupt")

\* documents of extract_text_from_pdfs: the pdfs with enough text.
Documents(arch) == SelectSeq(PdfFiles(arch), LAMBDA e : e = "pdf_ok")

\* A generator that took every chunk.
NumChunksUncapped(arch) == Len(Documents(arch)) * arch.nchunks

\* len(chunks[:5]) of generate_protocols_from_chunks.
NumChunks(arch) ==
    LET n == Len(Documents(arch)) * arch.nchunks
    IN  IF n > ChunkCap THEN ChunkCap ELSE n

(***************************************************************************)
(* State.                                                                  *)
(***************************************************************************)
VARIABLES
    tasks,              \* the asyncio tasks created by the intake, by number
    ntasks,             \* how many tasks have been created
    active_tasks,       \* DocumentProcessor.active_tasks: key -> task (0: no entry)
    cancelled_uploads,  \* DocumentProcessor.cancelled_uploads
    previews,           \* uploads/previews/<key>.json
    upload_dirs,        \* uploads/<upload_id>/ directories that exist
    cancel_log,         \* (key, result) of the latest cancel_upload calls made in a row
    index_calls,        \* the index_user_protocols calls made, in order, and how each ended
    reply,              \* what the approve or regenerate call of the latest step returned
    gen,                \* one generate_protocol_from_chunk call, followed through its loop
    chunker             \* create_semantic_chunks on one text, followed through its loop

vars == <<tasks, ntasks, active_tasks, cancelled_uploads, previews, upload_dirs, cancel_log,
          index_calls, reply, gen, chunker>>

TaskIds == 1..MaxTasks

\* No preview file on disk.
NoPreview == [status |-> "none", protocols |-> <<>>]

\* preview_data of store_protocols_for_preview.
PreviewData(status, protocols) == [status |-> status, protocols |-> protocols]

\* A task that has not been created.
NoTask ==
    [pc |-> "none", user |-> "", upload |-> "", arch |-> Archive("bad", <<>>, 0, "none"),
     nargs |-> 0, n |-> 0, i |-> 0, j |-> 0, protocols |-> <<>>, calls |-> <<>>,
     must_cancel |-> FALSE, outcome |-> "", via |-> "", callback |-> FALSE]

\* asyncio.create_task(wrapped_process_upload()): created, not yet run.
NewTask(user_id, upload_id, arch, nargs) ==
    [NoTask EXCEPT !.pc = "created", !.user = user_id, !.upload = upload_id,
                   !.arch = arch, !.nargs = nargs]

KeyOf(t) == UploadKey(tasks[t].user, tasks[t].upload)

\* task.done()
Done(t) == tasks[t].pc = "done"

Live(t) == tasks[t].pc \notin {"none", "done"}

\* A checkpoint that never saw the flag.
IsUploadCancelledNever(key) == FALSE

\* _is_upload_cancelled
IsUploadCancelled(key) == key \in cancelled_uploads

\* get_preview_protocols: what a preview read returns for the key when the
\* preview store is pv.
PreviewRead(pv, key) ==
    IF pv[key] = NoPreview
    THEN [status |-> "not_found", protocols |-> <<>>]
    ELSE [status |-> pv[key].status, protocols |-> pv[key].protocols]

get_preview_protocols(key) == PreviewRead(previews, key)

\* "status" of get_upload_status: processing while the key has an entry in
\* active_tasks whose task is not done, awaiting_approval otherwise.
get_upload_status(key) ==
    IF active_tasks[key] # 0 /\ ~Done(active_tasks[key])
    THEN "processing"
    ELSE "awaiting_approval"

\* No approve or regenerate call returned in the latest step.
NoReply == [op |-> "none", key |-> "", found |-> "", success |-> FALSE, message |-> "",
            count |-> 0]

\* What an approve or regenerate call returned: found is the status of the
\* preview_data it read, count its protocols_indexed or
\* protocols_regenerated.
Reply(op, key, found, success, message, count) ==
    [op |-> op, key |-> key, found |-> found, success |-> success, message |-> message,
     count |-> count]

\* No generate_protocol_from_chunk call is being followed.
NoCall == [pc |-> "idle", answers |-> <<>>, attempt |-> 0, prompts |-> <<>>,
           validations |-> <<>>, result |-> FallbackResult]

\* DocumentProcessor.__init__, empty upload and preview directories, and an
\* index that has received nothing.
InitProcessor ==
    /\ tasks = [t \in TaskIds |-> NoTask]
    /\ ntasks = 0
    /\ active_tasks = [k \in Keys |-> 0]
    /\ cancelled_uploads = {}
    /\ previews = [k \in Keys |-> NoPreview]
    /\ upload_dirs = {}
    /\ cancel_log = <<>>
    /\ index_calls = <<>>
    /\ reply = NoReply

\* create_semantic_chunks is not being followed.
NoChunker == [pc |-> "idle", len |-> 0, endings |-> {}, start |-> 0, windows |-> <<>>,
              chunks |-> <<>>]

Init ==
    /\ InitProcessor
    /\ gen = NoCall
    /\ chunker = NoChunker

\* A step of the intake, of cancel_upload or of a task: no approve or
\* regenerate call returns in it, and the index is not called.
NoReviewCall == reply' = NoReply /\ UNCHANGED <<index_calls, gen, chunker>>

(***************************************************************************)
(* The intake: upload_documents of main.py.                                *)
(***************************************************************************)
\* upload_id = f"{hash(file.filename)}_{hash(content)}": the upload id is a
\* function of the file, so two uploads under one id carry the same file.
SameFile(upload_id, arch) ==
    \A s \in 1..ntasks : tasks[s].upload = upload_id => tasks[s].arch = arch

\* The handler creates the task, stores it under the key (whatever is stored
\* there) and attaches cleanup_task as its done-callback.  nargs is the
\* number of positional arguments the task's coroutine passes to
\* process_upload when it first runs.
upload_documents(user_id, upload_id, arch, nargs) ==
    /\ ntasks < MaxTasks
    /\ SameFile(upload_id, arch)
    /\ ntasks' = ntasks + 1
    /\ tasks' = [tasks EXCEPT ![ntasks + 1] = NewTask(user_id, upload_id, arch, nargs)]
    /\ active_tasks' = [active_tasks EXCEPT ![UploadKey(user_id, upload_id)] = ntasks + 1]
    /\ cancel_log' = <<>>
    /\ UNCHANGED <<cancelled_uploads, previews, upload_dirs>>

\* cleanup_task, the done-callback: active_tasks.pop(upload_key, None).  The
\* loop runs it some time after the task is done.
cleanup_task(t) ==
    /\ tasks[t].callback
    /\ tasks' = [tasks EXCEPT ![t].callback = FALSE]
    /\ active_tasks' = [active_tasks EXCEPT ![KeyOf(t)] = 0]
    /\ cancel_log' = <<>>
    /\ UNCHANGED <<ntasks, cancelled_uploads, previews, upload_dirs>>

(***************************************************************************)
(* cancel_upload.                                                          *)
(***************************************************************************)
\* A cancel_upload that did not look at task.done().
CancelTargetIgnoresDone(key) == active_tasks[key]

\* if upload_key in self.active_tasks: ... if not task.done(): the task that
\* cancel_upload cancels, 0 when it cancels none.
CancelTarget(key) ==
    IF active_tasks[key] # 0 /\ ~Done(active_tasks[key]) THEN active_tasks[key] ELSE 0

\* The set after self.cancelled_uploads.add(upload_key), which comes first.
MarkCancelled(key) == cancelled_uploads \cup {key}

\* A cancel_upload that left the preview store alone.
CancelPreviewSkipsWrite(key) == previews

\* The preview file after cancel_upload: written only on the branch that
\* cancels a task.
CancelPreview(key) ==
    IF CancelTarget(key) # 0
    THEN [previews EXCEPT ![key] = PreviewData("cancelled", <<>>)]
    ELSE previews

\* The two latest results of cancel_upload calls that follow each other with
\* no other step in between.
Logged(entry) ==
    IF cancel_log = <<>> THEN <<entry>> ELSE <<cancel_log[Len(cancel_log)], entry>>

cancel_upload(user_id, upload_id) ==
    LET key == UploadKey(user_id, upload_id)
        t   == CancelTarget(key)
    IN  /\ cancelled_uploads' = MarkCancelled(key)
        /\ tasks' = IF t # 0 THEN [tasks EXCEPT ![t].must_cancel = TRUE] ELSE tasks
        /\ previews' = CancelPreview(key)
        /\ cancel_log' = Logged([key |-> key, ret |-> (t # 0)])
        /\ UNCHANGED <<ntasks, active_tasks, upload_dirs>>

(***************************************************************************)
(* process_upload, run as a task.                                          *)
(***************************************************************************)
Finished(task, outcome, via) ==
    [task EXCEPT !.pc = "done", !.outcome = outcome, !.via = via, !.callback = TRUE]

\* The task suspends at its next await; dirs is the upload directory set it
\* leaves behind.
Suspend(t, pc, n, i, j, protocols, dirs) ==
    /\ tasks' = [tasks EXCEPT ![t].pc = pc, ![t].n = n, ![t].i = i, ![t].j = j,
                              ![t].protocols = protocols]
    /\ upload_dirs' = dirs
    /\ cancel_log' = <<>>
    /\ UNCHANGED <<ntasks, active_tasks, cancelled_uploads, previews>>

\* Every way out of process_upload's try runs the finally block: the upload
\* directory is removed, the key is discarded from cancelled_uploads and
\* deleted from active_tasks.  pv is the preview store the path leaves,
\* protocols the list the generator held last.
ProcessUploadEnds(t, outcome, via, pv, protocols) ==
    /\ tasks' = [tasks EXCEPT ![t] = Finished([@ EXCEPT !.protocols = protocols], outcome, via)]
    /\ previews' = pv
    /\ upload_dirs' = upload_dirs \ {tasks[t].upload}
    /\ cancelled_uploads' = cancelled_uploads \ {KeyOf(t)}
    /\ active_tasks' = [active_tasks EXCEPT ![KeyOf(t)] = 0]
    /\ cancel_log' = <<>>
    /\ UNCHANGED ntasks

\* return {"status": "cancelled", ...} at a flag checkpoint.
ReturnCancelled(t) ==
    ProcessUploadEnds(t, "cancelled", "flag", previews, tasks[t].protocols)

\* A handler that stored whatever the generator had accumulated.
CancelledRecordKeepsPartial(protocols) == PreviewData("cancelled", protocols)

\* The record the CancelledError handler stores: whatever the generator held
\* in memory (protocols), the list written is empty.
CancelledRecord(protocols) == PreviewData("cancelled", <<>>)

\* except asyncio.CancelledError
OnCancelledError(t) ==
    ProcessUploadEnds(t, "cancelled", "CancelledError",
                      [previews EXCEPT ![KeyOf(t)] = CancelledRecord(tasks[t].protocols)],
                      tasks[t].protocols)

\* except Exception
OnException(t) ==
    ProcessUploadEnds(t, "failed", "Exception", previews, tasks[t].protocols)

\* A process_upload that treated an empty protocol list as an error.
CompletesFailsOnEmpty(t, protocols) ==
    IF protocols = <<>> THEN OnException(t)
    ELSE ProcessUploadEnds(t, "awaiting_approval", "return",
                           [previews EXCEPT ![KeyOf(t)] = PreviewData("completed", protocols)],
                           protocols)

\* Step 5 and the return of the awaiting_approval result.
Completes(t, protocols) ==
    ProcessUploadEnds(t, "awaiting_approval", "return",
                      [previews EXCEPT ![KeyOf(t)] = PreviewData("completed", protocols)],
                      protocols)

\* A pipeline that stored the protocols accumulated so far after every
\* pass, while the generator was still running.
GenNextStoresEachPass(t, i, j, protocols) ==
    IF j < Len(protocol_types)
    THEN /\ tasks' = [tasks EXCEPT ![t].pc = "gen_yield", ![t].n = 0, ![t].i = i,
                                   ![t].j = j + 1, ![t].protocols = protocols]
         /\ previews' = [previews EXCEPT ![KeyOf(t)] = PreviewData("completed", protocols)]
         /\ cancel_log' = <<>>
         /\ UNCHANGED <<ntasks, active_tasks, cancelled_uploads, upload_dirs>>
    ELSE IF i < NumChunks(tasks[t].arch)
         THEN Suspend(t, "gen_chunk", 0, i + 1, 0, protocols, upload_dirs)
         ELSE Completes(t, protocols)

\* generate_protocols_from_chunks after combination (i, j), flag clear: the
\* next pass, the next chunk, or the return of the list.
GenNext(t, i, j, protocols) ==
    IF j < Len(protocol_types)
    THEN Suspend(t, "gen_yield", 0, i, j + 1, protocols, upload_dirs)
    ELSE IF i < NumChunks(tasks[t].arch)
         THEN Suspend(t, "gen_chunk", 0, i + 1, 0, protocols, upload_dirs)
         ELSE Completes(t, protocols)

\* The checkpoint after create_semantic_chunks, then the generator's entry.
AfterChunks(t) ==
    IF IsUploadCancelled(KeyOf(t)) THEN ReturnCancelled(t)
    ELSE IF NumChunks(tasks[t].arch) = 0 THEN Completes(t, <<>>)
    ELSE Suspend(t, "gen_chunk", 0, 1, 0, <<>>, upload_dirs)

\* create_semantic_chunks, top of the loop for document n.
ChunkLoop(t, n) ==
    IF n <= Len(Documents(tasks[t].arch))
    THEN Suspend(t, "chunk_doc", n, 0, 0, <<>>, upload_dirs)
    ELSE AfterChunks(t)

\* The checkpoint after extract_text_from_pdfs.
AfterText(t) ==
    IF IsUploadCancelled(KeyOf(t)) THEN ReturnCancelled(t) ELSE ChunkLoop(t, 1)

\* extract_text_from_pdfs, top of the loop for pdf n.
PdfLoop(t, n) ==
    IF n <= Len(PdfFiles(tasks[t].arch))
    THEN Suspend(t, "pdf_file", n, 0, 0, <<>>, upload_dirs)
    ELSE AfterText(t)

\* extract_zip, top of the loop for entry n; past the last entry, the
\* "No PDF files" error or the first checkpoint of process_upload.
ZipLoop(t, n, dirs) ==
    IF n <= Len(tasks[t].arch.entries)
    THEN Suspend(t, "zip_entry", n, 0, 0, <<>>, dirs)
    ELSE IF PdfFiles(tasks[t].arch) = <<>> THEN OnException(t)
    ELSE IF IsUploadCancelled(KeyOf(t)) THEN ReturnCancelled(t)
    ELSE PdfLoop(t, 1)

\* Whether the call process_upload(user_id, content, upload_id,
\* custom_prompt, ...) binds to the method's parameters.
CallBinds(nargs) == nargs <= ProcessUploadParams

\* The first run of the task: wrapped_process_upload calls process_upload,
\* which starts extract_zip (makedirs, then the archive is opened).
task_start(t) ==
    /\ tasks[t].pc = "created"
    /\ ~tasks[t].must_cancel
    /\ IF ~CallBinds(tasks[t].nargs)
       THEN /\ tasks' = [tasks EXCEPT ![t] = Finished(@, "raised", "TypeError")]
            /\ cancel_log' = <<>>
            /\ UNCHANGED <<ntasks, active_tasks, cancelled_uploads, previews, upload_dirs>>
       ELSE IF ~ZipOpens(tasks[t].arch) THEN OnException(t)
       ELSE ZipLoop(t, 1, upload_dirs \cup {tasks[t].upload})

\* task.cancel() on a task that has not run yet: the loop throws
\* CancelledError into the unstarted coroutine, no line of which runs.
cancelled_unstarted(t) ==
    /\ tasks[t].pc = "created"
    /\ tasks[t].must_cancel
    /\ tasks' = [tasks EXCEPT ![t] = Finished(@, "cancelled", "unstarted")]
    /\ cancel_log' = <<>>
    /\ UNCHANGED <<ntasks, active_tasks, cancelled_uploads, previews, upload_dirs>>

\* task.cancel() on a suspended task: CancelledError is raised at its await
\* and reaches process_upload's handler (no except Exception on the way
\* catches it).
deliver_CancelledError(t) ==
    /\ Live(t)
    /\ tasks[t].pc # "created"
    /\ tasks[t].must_cancel
    /\ OnCancelledError(t)

\* Resumed in extract_zip after the sleep(0) of entry n: a pdf is written
\* into the upload directory; any error becomes ValueError.
resume_zip_entry(t) ==
    /\ tasks[t].pc = "zip_entry"
    /\ ~tasks[t].must_cancel
    /\ IF tasks[t].arch.entries[tasks[t].n] # "other" /\ tasks[t].upload \notin upload_dirs
       THEN OnException(t)
       ELSE ZipLoop(t, tasks[t].n + 1, upload_dirs)

\* Resumed in extract_text_from_pdfs after the sleep(0) of pdf n:
\* extract_text_from_single_pdf either raises (the pdf is skipped) or
\* suspends at the sleep(0) of the page.
resume_pdf_file(t) ==
    /\ tasks[t].pc = "pdf_file"
    /\ ~tasks[t].must_cancel
    /\ IF PdfFiles(tasks[t].arch)[tasks[t].n] = "pdf_corrupt"
       THEN PdfLoop(t, tasks[t].n + 1)
       ELSE Suspend(t, "pdf_page", tasks[t].n, 0, 0, <<>>, upload_dirs)

\* Resumed after the page's sleep(0): the text is returned and kept or
\* dropped by the 100-character threshold.
resume_pdf_page(t) ==
    /\ tasks[t].pc = "pdf_page"
    /\ ~tasks[t].must_cancel
    /\ PdfLoop(t, tasks[t].n + 1)

\* Resumed in create_semantic_chunks after the sleep(0) of document n.
resume_chunk_doc(t) ==
    /\ tasks[t].pc = "chunk_doc"
    /\ ~tasks[t].must_cancel
    /\ ChunkLoop(t, tasks[t].n + 1)

\* Resumed after the sleep(0) at the start of chunk i: the first pass's
\* checkpoint, then its sleep(0).
resume_gen_chunk(t) ==
    /\ tasks[t].pc = "gen_chunk"
    /\ ~tasks[t].must_cancel
    /\ IF IsUploadCancelled(KeyOf(t)) THEN ReturnCancelled(t)
       ELSE Suspend(t, "gen_yield", 0, tasks[t].i, 1, tasks[t].protocols, upload_dirs)

\* Resumed after the sleep(0) before pass j: the checkpoint after the
\* yield, then the model call in a thread; calls lists the (chunk, pass)
\* combinations for which generate_protocol_from_chunk has been called.
resume_gen_yield(t) ==
    /\ tasks[t].pc = "gen_yield"
    /\ ~tasks[t].must_cancel
    /\ IF IsUploadCancelled(KeyOf(t)) THEN ReturnCancelled(t)
       ELSE /\ tasks' = [tasks EXCEPT ![t].pc = "gen_call",
                                      ![t].calls = Append(@, <<tasks[t].i, tasks[t].j>>)]
            /\ cancel_log' = <<>>
            /\ UNCHANGED <<ntasks, active_tasks, cancelled_uploads, previews, upload_dirs>>

\* chunk['source_file'] of chunk i: create_semantic_chunks cuts the
\* documents in order, nchunks chunks from each.
SourceFile(arch, i) ==
    [doc |-> ((i - 1) \div arch.nchunks) + 1,
     file |-> Documents(arch)[((i - 1) \div arch.nchunks) + 1]]

\* A generator whose protocol ids did not count the protocols so far:
\* f"user_{user_id}_{focus}".
ProtocolIdWithoutCount(t, i, j) ==
    [protocol_id |-> <<"user", tasks[t].user, protocol_types[j]>>,
     title |-> AnswerTitle(tasks[t].arch.resp, i, j),
     chunk |-> i, focus |-> protocol_types[j],
     steps |-> generate_protocol_from_chunk(ModelAnswers(tasks[t].arch.resp, i, j)).checklist,
     citations |-> <<[id |-> 1, source |-> SourceFile(tasks[t].arch, i), excerpt |-> i]>>,
     origin |-> "generated"]

\* The protocol appended for a non-empty checklist: protocol_id is
\* f"user_{user_id}_{len(protocols)}_{focus}", the one citation names the
\* chunk's file and carries the chunk's text (chunk i), intent is the pass,
\* steps is the checklist as returned.
Protocol(t, i, j) ==
    [protocol_id |-> <<"user", tasks[t].user, Len(tasks[t].protocols), protocol_types[j]>>,
     title |-> AnswerTitle(tasks[t].arch.resp, i, j),
     chunk |-> i, focus |-> protocol_types[j],
     steps |-> generate_protocol_from_chunk(ModelAnswers(tasks[t].arch.resp, i, j)).checklist,
     citations |-> <<[id |-> 1, source |-> SourceFile(tasks[t].arch, i), excerpt |-> i]>>,
     origin |-> "generated"]

\* A generator that lost what it had accumulated when a call failed.
AccumulateResetsOnFailure(protocols, r, p) ==
    IF r = "steps" THEN Append(protocols, p) ELSE <<>>

\* The list after the call for (i, j) returned r.
Accumulate(protocols, r, p) == IF r = "steps" THEN Append(protocols, p) ELSE protocols

\* Resumed when the model call of (i, j) has ended: whether it returned or
\* raised, the next thing the task does is a flag checkpoint.
resume_gen_call(t) ==
    /\ tasks[t].pc = "gen_call"
    /\ ~tasks[t].must_cancel
    /\ IF IsUploadCancelled(KeyOf(t)) THEN ReturnCancelled(t)
       ELSE GenNext(t, tasks[t].i, tasks[t].j,
                    Accumulate(tasks[t].protocols,
                               Response(tasks[t].arch.resp, tasks[t].i, tasks[t].j),
                               Protocol(t, tasks[t].i, tasks[t].j)))

TaskStep(t) ==
    \/ task_start(t)
    \/ cancelled_unstarted(t)
    \/ deliver_CancelledError(t)
    \/ resume_zip_entry(t)
    \/ resume_pdf_file(t)
    \/ resume_pdf_page(t)
    \/ resume_chunk_doc(t)
    \/ resume_gen_chunk(t)
    \/ resume_gen_yield(t)
    \/ resume_gen_call(t)

Next ==
    \/ \E u \in Users, f \in UploadIds, a \in Archives, nargs \in {ProcessUploadParams, IntakeArgs} :
          upload_documents(u, f, a, nargs) /\ NoReviewCall
    \/ \E u \in Users, f \in UploadIds : cancel_upload(u, f) /\ NoReviewCall
    \/ \E t \in TaskIds : TaskStep(t) /\ NoReviewCall
    \/ \E t \in TaskIds : cleanup_task(t) /\ NoReviewCall

Spec == Init /\ [][Next]_vars

(***************************************************************************)
(* Review of a staged result: approve_and_index_protocols and              *)
(* regenerate_upload_protocols.  The endpoints of main.py queue them as    *)
(* background tasks on the same event loop; neither holds an await that    *)
(* yields (index_user_protocols and summarize_checklist are synchronous    *)
(* calls), so each runs from its first line to its return in one step.     *)
(***************************************************************************)
\* What index_user_protocols does with a call: "ok" (success, every
\* document indexed) or "fail" (success false, or it raises).
BridgeOutcomes(n) ==
    {[result |-> "fail", rejected |-> 1..n]}
       \cup {[result |-> "ok", rejected |-> r] : r \in SUBSET (1..n)}

\* What summarize_checklist does for one protocol: a result with steps, a
\* result with an empty checklist, or an exception.
RegenerationOutcomes == {"steps", "empty", "raise"}

\* A validation that did not look at the title.
validated_protocolsIgnoresTitle(protocols) == SelectSeq(protocols, LAMBDA p : p.steps # <<>>)

\* validated_protocols of validate_and_index_protocols: title and steps and
\* steps_count > 0.
validated_protocols(protocols) ==
    SelectSeq(protocols, LAMBDA p : p.title # "" /\ p.steps # <<>>)

\* The index_user_protocols call of validate_and_index_protocols: none when
\* nothing is valid.
\* The documents the index holds after client.bulk on the list forwarded:
\* those whose item carries no error, none when the call raised.
Accepted(forwarded, bridge) ==
    LET kept[k \in 0..Len(forwarded)] ==
            IF k = 0 THEN <<>>
            ELSE IF k \in bridge.rejected THEN kept[k - 1]
            ELSE Append(kept[k - 1], forwarded[k])
    IN  IF bridge.result = "ok" THEN kept[Len(forwarded)] ELSE <<>>

IndexCalls(key, protocols, bridge) ==
    IF validated_protocols(protocols) = <<>> THEN index_calls
    ELSE Append(index_calls, [key |-> key, protocols |-> validated_protocols(protocols),
                              indexed |-> (bridge.result = "ok"),
                              rejected |-> bridge.rejected,
                              accepted |-> Accepted(validated_protocols(protocols), bridge)])

\* A bridge that reported every document it sent as indexed, whatever the
\* items of the bulk response said.
indexed_countIgnoresErrors(protocols, bridge) ==
    IF bridge.result = "ok" THEN Len(validated_protocols(protocols)) ELSE 0

\* indexed_count returned by validate_and_index_protocols: successful_count
\* of index_user_protocols, the items without an error, or 0 when the
\* bridge returned success False.
indexed_count(protocols, bridge) ==
    IF bridge.result = "ok"
    THEN Len(validated_protocols(protocols))
            - Cardinality(bridge.rejected \cap (1..Len(validated_protocols(protocols))))
    ELSE 0

\* An approve that kept the record when nothing was indexed.
ApprovePreviewKeepsUnindexed(key, protocols, bridge) ==
    IF protocols # <<>> /\ indexed_count(protocols, bridge) = 0
    THEN previews
    ELSE [previews EXCEPT ![key] = NoPreview]

\* The preview store after approve: os.remove(preview_file) on both
\* branches, whatever validate_and_index_protocols returned.
ApprovePreview(key, protocols, bridge) == [previews EXCEPT ![key] = NoPreview]

\* An approve that sent an empty list on to validate_and_index_protocols.
NoProtocolsToIndexNever(protocols) == FALSE

\* if not protocols, of approve_and_index_protocols.
NoProtocolsToIndex(protocols) == protocols = <<>>

approve_and_index_protocols(user_id, upload_id, bridge) ==
    LET key       == UploadKey(user_id, upload_id)
        found     == get_preview_protocols(key).status
        protocols == get_preview_protocols(key).protocols
    IN  /\ IF NoProtocolsToIndex(protocols)
           THEN /\ index_calls' = index_calls
                /\ reply' = Reply("approve", key, found, FALSE,
                                  "No protocols found for indexing", 0)
           ELSE /\ index_calls' = IndexCalls(key, protocols, bridge)
                /\ reply' = Reply("approve", key, found, TRUE, "Successfully indexed",
                                  indexed_count(protocols, bridge))
        /\ previews' = ApprovePreview(key, protocols, bridge)
        /\ cancel_log' = <<>>
        /\ UNCHANGED <<tasks, ntasks, active_tasks, cancelled_uploads, upload_dirs, gen,
                       chunker>>

\* result["checklist"] of a summarize_checklist call that found steps.
RegeneratedChecklist == <<Step(30, 1)>>

\* regeneration_id of the endpoint:
\* f"regen_{user_id}_{upload_id}_{hash(custom_prompt or '')}", for the one
\* custom prompt of the model.
RegenerationId(user_id, upload_id) == <<"regen", user_id, upload_id>>

\* result["title"] of summarize_checklist called with the title
\* f"Regenerated: {title}": the model's title, or the one passed in when
\* that is blank or the fallback is returned; never blank.  Titles are
\* told apart as far as the validation does: blank or not.
RegeneratedTitle(title) == "Regenerated"

\* f"[Fallback] {title}" of the protocol kept as fallback: never blank.
FallbackTitle(title) == "[Fallback]"

\* A regenerate that dropped the protocol whose regeneration raised.
RegenerateOneDropsFailed(protocol, outcome, upload_id, i, regeneration_id) ==
    IF outcome = "raise" THEN <<>>
    ELSE <<[protocol EXCEPT !.protocol_id = <<"regen", upload_id, i, regeneration_id>>,
                            !.title = RegeneratedTitle(protocol.title),
                            !.steps = IF outcome = "steps" THEN RegeneratedChecklist ELSE <<>>,
                            !.origin = "regenerated"]>>

\* What one round of regenerate's loop appends for a protocol:
\* regenerated_protocol (the result's checklist, the original's citations
\* and intent), or on an exception fallback_protocol, a copy of the
\* original with a "[Fallback]" title.
RegenerateOne(protocol, outcome, upload_id, i, regeneration_id) ==
    IF outcome = "raise"
    THEN <<[protocol EXCEPT !.protocol_id = <<"fallback", upload_id, i, regeneration_id>>,
                            !.title = FallbackTitle(protocol.title),
                            !.origin = "fallback"]>>
    ELSE <<[protocol EXCEPT !.protocol_id = <<"regen", upload_id, i, regeneration_id>>,
                            !.title = RegeneratedTitle(protocol.title),
                            !.steps = IF outcome = "steps" THEN RegeneratedChecklist ELSE <<>>,
                            !.origin = "regenerated"]>>

\* regenerated_protocols after the loop over original_protocols[1..n]
\* (enumerate counts from 0).
RECURSIVE RegenerateAll(_, _, _, _, _)
RegenerateAll(original_protocols, outcomes, n, upload_id, regeneration_id) ==
    IF n = 0 THEN <<>>
    ELSE RegenerateAll(original_protocols, outcomes, n - 1, upload_id, regeneration_id)
            \o RegenerateOne(original_protocols[n], outcomes[n], upload_id, n - 1,
                             regeneration_id)

\* A regenerate that went on with an empty list.
NoOriginalProtocolsNever(original_protocols) == FALSE

\* if not original_protocols, of regenerate_upload_protocols.
NoOriginalProtocols(original_protocols) == original_protocols = <<>>

regenerate_upload_protocols(user_id, upload_id, outcomes) ==
    LET key                == UploadKey(user_id, upload_id)
        found              == get_preview_protocols(key).status
        original_protocols == get_preview_protocols(key).protocols
        regenerated        == RegenerateAll(original_protocols, outcomes,
                                            Len(original_protocols), upload_id,
                                            RegenerationId(user_id, upload_id))
    IN  /\ DOMAIN outcomes = DOMAIN original_protocols
        /\ IF NoOriginalProtocols(original_protocols)
           THEN /\ previews' = previews
                /\ reply' = Reply("regenerate", key, found, FALSE,
                                  "Upload protocols not found", 0)
           ELSE /\ previews' = [previews EXCEPT ![key] = PreviewData("completed", regenerated)]
                /\ reply' = Reply("regenerate", key, found, TRUE,
                                  "Successfully regenerated", Len(regenerated))
        /\ cancel_log' = <<>>
        /\ UNCHANGED <<tasks, ntasks, active_tasks, cancelled_uploads, upload_dirs,
                       index_calls, gen, chunker>>

\* The outcomes drawn for the protocols of a record.
OutcomesFor(key) ==
    [DOMAIN get_preview_protocols(key).protocols -> RegenerationOutcomes]

\* One upload session: a single accepted upload, its task, and cancel_upload
\* calls in every interleaving with the task's steps.
NextSession ==
    \/ \E u \in Users, f \in UploadIds, a \in SessionArchives, nargs \in {ProcessUploadParams, IntakeArgs} :
          ntasks = 0 /\ upload_documents(u, f, a, nargs) /\ NoReviewCall
    \/ \E u \in Users, f \in UploadIds : cancel_upload(u, f) /\ NoReviewCall
    \/ \E t \in TaskIds : TaskStep(t) /\ NoReviewCall
    \/ \E t \in TaskIds : cleanup_task(t) /\ NoReviewCall

SpecSession == Init /\ [][NextSession]_vars

\* One upload session and the review of its result: the upload, its task,
\* cancel_upload, approve and regenerate calls in every interleaving.
NextReview ==
    \/ \E u \in Users, f \in UploadIds, a \in ReviewArchives, nargs \in {ProcessUploadParams, IntakeArgs} :
          ntasks = 0 /\ upload_documents(u, f, a, nargs) /\ NoReviewCall
    \/ \E u \in Users, f \in UploadIds : cancel_upload(u, f) /\ NoReviewCall
    \/ \E t \in TaskIds : TaskStep(t) /\ NoReviewCall
    \/ \E t \in TaskIds : cleanup_task(t) /\ NoReviewCall
    \/ \E u \in Users, f \in UploadIds :
          \E bridge \in BridgeOutcomes(Len(validated_protocols(
                                get_preview_protocols(UploadKey(u, f)).protocols))) :
              approve_and_index_protocols(u, f, bridge)
    \/ \E u \in Users, f \in UploadIds :
          \E outcomes \in OutcomesFor(UploadKey(u, f)) :
              regenerate_upload_protocols(u, f, outcomes)

SpecReview == Init /\ [][NextReview]_vars

(***************************************************************************)
(* Two uploads of one user, the second made when the first one's task has  *)
(* ended, and their approval: what the user's index holds after the        *)
(* approve calls.  No upload is cancelled.                                 *)
(***************************************************************************)
\* Upload ids of two different files.
IndexUploads == {"f1", "f2"}

InitIndex ==
    /\ tasks = [t \in TaskIds |-> NoTask]
    /\ ntasks = 0
    /\ active_tasks = [k \in {UploadKey(u, f) : u \in Users, f \in IndexUploads} |-> 0]
    /\ cancelled_uploads = {}
    /\ previews = [k \in {UploadKey(u, f) : u \in Users, f \in IndexUploads} |-> NoPreview]
    /\ upload_dirs = {}
    /\ cancel_log = <<>>
    /\ index_calls = <<>>
    /\ reply = NoReply
    /\ gen = NoCall
    /\ chunker = NoChunker

\* The documents of the user's index after the bulk calls so far: each
\* accepted protocol is written under _id = protocol_id, in place of the
\* document that had that _id.  upload is the key of the approve that wrote
\* the document.
IndexedDocuments ==
    LET docs[c \in 0..Len(index_calls)] ==
            IF c = 0 THEN {}
            ELSE LET written == {[_id |-> index_calls[c].accepted[n].protocol_id,
                                  upload |-> index_calls[c].key,
                                  doc |-> index_calls[c].accepted[n]] :
                                     n \in DOMAIN index_calls[c].accepted}
                 IN  {d \in docs[c - 1] : \A w \in written : w._id # d._id} \cup written
    IN  docs[Len(index_calls)]

NextIndex ==
    \/ \E u \in Users, f \in IndexUploads :
          /\ \A t \in TaskIds : ~Live(t)
          /\ upload_documents(u, f, ArchiveOfOneDocument, ProcessUploadParams)
          /\ NoReviewCall
    \/ \E t \in TaskIds :
          /\ \/ task_start(t)
             \/ resume_zip_entry(t)
             \/ resume_pdf_file(t)
             \/ resume_pdf_page(t)
             \/ resume_chunk_doc(t)
             \/ resume_gen_chunk(t)
             \/ resume_gen_yield(t)
             \/ resume_gen_call(t)
          /\ NoReviewCall
    \/ \E t \in TaskIds : cleanup_task(t) /\ NoReviewCall
    \/ \E u \in Users, f \in IndexUploads :
          \E bridge \in BridgeOutcomes(Len(validated_protocols(
                                get_preview_protocols(UploadKey(u, f)).protocols))) :
              approve_and_index_protocols(u, f, bridge)

SpecIndex == InitIndex /\ [][NextIndex]_vars

(***************************************************************************)
(* The previews directory on its own: records of several users are stored *)
(* and cleared in every order.  A record is the file                       *)
(* f"{user_id}_{upload_id}.json"; every file of the directory ends in      *)
(* .json, so the suffix is left out of the names.                          *)
(***************************************************************************)
\* User ids of the clearing sessions; the endpoints take any non-blank
\* string as user_id.
ClearUsers == {"u1", "u1_x", "u2"}

\* Upload ids as the intake builds them: f"{hash(filename)}_{hash(content)}".
ClearUploads == {"1_2", "3_4"}

ClearKeys == {UploadKey(u, f) : u \in ClearUsers, f \in ClearUploads}

\* Upload ids given in the path of DELETE
\* /users/{user_id}/upload-preview/{upload_id}: any string.
PathUploads == {"x_1_2"}

\* upload_id = None of delete_preview_file.
None == "None"

\* The records stored in the clearing sessions.
ClearRecords == {PreviewData("completed", <<>>), PreviewData("cancelled", <<>>)}

\* filename.startswith(prefix)
StartsWith(filename, prefix) ==
    /\ Len(filename) >= Len(prefix)
    /\ SubSeq(filename, 1, Len(prefix)) = prefix

InitClear ==
    /\ tasks = [t \in TaskIds |-> NoTask]
    /\ ntasks = 0
    /\ active_tasks = [k \in Keys |-> 0]
    /\ cancelled_uploads = {}
    /\ previews = [k \in ClearKeys |-> NoPreview]
    /\ upload_dirs = {}
    /\ cancel_log = <<>>
    /\ index_calls = <<>>
    /\ reply = NoReply
    /\ gen = NoCall
    /\ chunker = NoChunker

\* store_protocols_for_preview: the record is written to the file of the
\* key.
store_protocols_for_preview(user_id, upload_id, preview_data) ==
    /\ previews' = [previews EXCEPT ![UploadKey(user_id, upload_id)] = preview_data]
    /\ reply' = NoReply
    /\ UNCHANGED <<tasks, ntasks, active_tasks, cancelled_uploads, upload_dirs, cancel_log,
                   index_calls, gen, chunker>>

\* The files delete_preview_file removes: the file of the key, or, with no
\* upload_id, every file whose name starts with f"{user_id}_".
DeletedFiles(user_id, upload_id) ==
    IF upload_id # None
    THEN {k \in DOMAIN previews : k = UploadKey(user_id, upload_id) /\ previews[k] # NoPreview}
    ELSE {k \in DOMAIN previews :
            previews[k] # NoPreview /\ StartsWith(k, user_id \o "_")}

\* delete_preview_file(user_id, upload_id): returns deleted_count > 0.
delete_preview_file(user_id, upload_id) ==
    /\ previews' = [k \in DOMAIN previews |->
                       IF k \in DeletedFiles(user_id, upload_id) THEN NoPreview
                       ELSE previews[k]]
    /\ reply' = Reply("delete", user_id, upload_id,
                      Cardinality(DeletedFiles(user_id, upload_id)) > 0, "",
                      Cardinality(DeletedFiles(user_id, upload_id)))
    /\ UNCHANGED <<tasks, ntasks, active_tasks, cancelled_uploads, upload_dirs, cancel_log,
                   index_calls, gen, chunker>>

NextClear ==
    \/ \E u \in ClearUsers, f \in ClearUploads, r \in ClearRecords :
          store_protocols_for_preview(u, f, r)
    \/ \E u \in ClearUsers, f \in ClearUploads \cup {None} :
          delete_preview_file(u, f)
    \/ \E u \in ClearUsers, f \in PathUploads :
          delete_preview_file(u, f)

SpecClear == InitClear /\ [][NextClear]_vars

(***************************************************************************)
(* generate_protocol_from_chunk on its own: one call, for every sequence   *)
(* of answers the model can give, followed through the retry loop one      *)
(* iteration at a time.                                                    *)
(***************************************************************************)
Steps == {Step(e, c) : e \in ExplanationLengths, c \in CitationIndexes}

Checklists == UNION {[1..n -> Steps] : n \in 0..MaxSteps}

Answers ==
    {ModelAnswer("json", checklist, citations) : checklist \in Checklists, citations \in {0, 1}}
        \cup {ModelAnswer(kind, <<>>, 0) : kind \in {"error", "blank", "garbage", "list"}}

\* The call has built base_prompt and enters the loop; a and b are the
\* model's answers to a first and to a second invocation.
InitGenerator ==
    /\ InitProcessor
    /\ chunker = NoChunker
    /\ \E a \in Answers, b \in Answers :
           gen = [NoCall EXCEPT !.pc = "loop", !.answers = <<a, b>>]

\* is_valid of the attempts so far: _validate_protocol_response is called
\* on whatever json.loads returned, an object or not.
Validated(validations, answer) ==
    IF answer.kind \in {"json", "list"}
    THEN Append(validations, validate_protocol_response(answer))
    ELSE validations

\* One iteration of for attempt in range(max_retries): the model is invoked
\* with current_prompt; the iteration returns the result or goes on.
generator_attempt ==
    /\ gen.pc = "loop"
    /\ gen.attempt < max_retries
    /\ gen' = IF AttemptReturns(gen.answers[gen.attempt + 1], gen.attempt)
              THEN [gen EXCEPT !.pc = "returned",
                               !.prompts = Append(@, CurrentPrompt(gen.attempt)),
                               !.validations = Validated(@, gen.answers[gen.attempt + 1]),
                               !.result = GeneratorResult(gen.answers[gen.attempt + 1].checklist,
                                                          gen.answers[gen.attempt + 1].citations)]
              ELSE [gen EXCEPT !.attempt = @ + 1,
                               !.prompts = Append(@, CurrentPrompt(gen.attempt)),
                               !.validations = Validated(@, gen.answers[gen.attempt + 1])]

\* The loop is over without a return: the empty protocol.
generator_fallback ==
    /\ gen.pc = "loop"
    /\ gen.attempt >= max_retries
    /\ gen' = [gen EXCEPT !.pc = "returned", !.result = FallbackResult]

NextGenerator ==
    \/ generator_attempt /\ UNCHANGED <<tasks, ntasks, active_tasks, cancelled_uploads,
                                        previews, upload_dirs, cancel_log, index_calls, reply,
                                        chunker>>
    \/ generator_fallback /\ UNCHANGED <<tasks, ntasks, active_tasks, cancelled_uploads,
                                         previews, upload_dirs, cancel_log, index_calls, reply,
                                        chunker>>

SpecGenerator == InitGenerator /\ [][NextGenerator]_vars

(***************************************************************************)
(* create_semantic_chunks on one text, one iteration of its while loop at  *)
(* a time.  A text is given by its length and by the positions (from 0)    *)
(* at which a sentence ending ('. ', '.\n', '! ', '!\n', '? ', '?\n')      *)
(* starts: the character there is the punctuation mark, the next one is    *)
(* white space, and every other character is a letter.                     *)
(***************************************************************************)
\* chunk_size = 2000  # Characters per chunk
chunk_size == 2000

\* overlap = 200      # Character overlap between chunks
overlap == 200

\* range(max(start + chunk_size - 200, start), min(end + 100, len(text)))
scan_back == 200
scan_ahead == 100

\* len(ending), the same for the six endings.
ending_len == 2

\* if len(chunk_text) > 100:  # Minimum chunk size
min_chunk_chars == 100

\* The lengths of the texts drawn.
TextLengths == {80, 150, 2000, 2001, 2150, 3900, 4200}

\* The positions at which the texts drawn may have a sentence ending.
EndingPositions == {1700, 1800, 1950, 1998, 2050, 2099, 2100, 3700}

\* The sets of ending positions of a text of length len: an ending lies
\* within the text and its white space is not the next ending's mark.
EndingSets(len) ==
    {E \in SUBSET {p \in EndingPositions : p + ending_len <= len} :
        \A p \in E : p + 1 \notin E}

Min(S) == CHOOSE x \in S : \A y \in S : x <= y

\* The positions the for loop visits for a window starting at start.
ScanRange(start, len) ==
    LET lo == IF start + chunk_size - scan_back > start
              THEN start + chunk_size - scan_back ELSE start
        hi == IF start + chunk_size + scan_ahead < len
              THEN start + chunk_size + scan_ahead ELSE len
    IN  lo..(hi - 1)

\* best_break after the for loop: the end of the first ending met in the
\* scan whose end is not the raw boundary itself (on such a match the loop
\* does not break), the raw boundary when there is none.
best_break(start, len, endings) ==
    LET found == {i \in ScanRange(start, len) \cap endings :
                     i + ending_len # start + chunk_size}
    IN  IF found = {} THEN start + chunk_size ELSE Min(found) + ending_len

\* end of the window starting at start, as text[start:end] uses it.
WindowEnd(start, len, endings) ==
    IF start + chunk_size < len THEN best_break(start, len, endings)
    ELSE start + chunk_size

\* len(text[start:end].strip()): the slice stops at the end of the text,
\* and strip removes the white space of an ending at either side.
StrippedLen(start, end, len, endings) ==
    LET stop  == IF end < len THEN end ELSE len
        lead  == IF start < stop /\ (start - 1) \in endings THEN 1 ELSE 0
        trail == IF stop - 1 > start /\ (stop - 2) \in endings THEN 1 ELSE 0
    IN  stop - start - lead - trail

\* A loop that started the next window where the last one ended.
NextStartWithoutOverlap(end, len) == end

\* start = end - overlap if end < len(text) else end
NextStart(end, len) == IF end < len THEN end - overlap ELSE end

InitChunker ==
    /\ InitProcessor
    /\ gen = NoCall
    /\ \E len \in TextLengths : \E E \in EndingSets(len) :
           chunker = [NoChunker EXCEPT !.pc = "loop", !.len = len, !.endings = E]

\* One iteration of while start < len(text).
chunker_window ==
    /\ chunker.pc = "loop"
    /\ chunker.start < chunker.len
    /\ LET end   == WindowEnd(chunker.start, chunker.len, chunker.endings)
           chars == StrippedLen(chunker.start, end, chunker.len, chunker.endings)
       IN  chunker' =
             [chunker EXCEPT
                !.windows = Append(@, [start |-> chunker.start, end |-> end]),
                !.chunks  = IF chars > min_chunk_chars
                            THEN Append(@, [chunk_index |-> Len(chunker.chunks),
                                            start |-> chunker.start, end |-> end,
                                            char_count |-> chars])
                            ELSE @,
                !.start   = NextStart(end, chunker.len)]
    /\ UNCHANGED <<tasks, ntasks, active_tasks, cancelled_uploads, previews, upload_dirs,
                   cancel_log, index_calls, reply, gen>>

\* The while loop is over: the chunks of the text are complete.
chunker_return ==
    /\ chunker.pc = "loop"
    /\ chunker.start >= chunker.len
    /\ chunker' = [chunker EXCEPT !.pc = "returned"]
    /\ UNCHANGED <<tasks, ntasks, active_tasks, cancelled_uploads, previews, upload_dirs,
                   cancel_log, index_calls, reply, gen>>

NextChunker == chunker_window \/ chunker_return

SpecChunker == InitChunker /\ [][NextChunker]_vars

\* The while loop holds no await: once entered, its iterations follow one
\* another until the loop is left.
SpecChunkerLive == SpecChunker /\ WF_vars(NextChunker)

(***************************************************************************)
(* Properties.                                                             *)
(***************************************************************************)
\* The step in which task t ends.
Ends(t) == Live(t) /\ tasks'[t].pc = "done"

\* The step is a cancel_upload call (every other action empties the log).
IsCancelCall == cancel_log' # <<>>
LastCancel == cancel_log[Len(cancel_log)]

CancelledEmpty == [status |-> "cancelled", protocols |-> <<>>]

\* C1: within one upload session, from the moment cancel_upload has returned
\* true for the task (it requested the task's cancellation) the preview
\* record of the key is 'cancelled' with no protocols, while the task is
\* still suspended and after it has terminated: no record with generated
\* protocols is written after the successful cancel.
CancellationWinsRace ==
    \A t \in TaskIds :
        tasks[t].must_cancel => get_preview_protocols(KeyOf(t)) = CancelledEmpty

\* C1 witness: the task was cancelled after generation calls had completed
\* and protocols were in memory, and has terminated through the handler.
CancelledAfterGenerationCalls ==
    \E t \in TaskIds :
        /\ Done(t) /\ tasks[t].must_cancel /\ tasks[t].via = "CancelledError"
        /\ Len(tasks[t].protocols) >= 1
        /\ get_preview_protocols(KeyOf(t)) = CancelledEmpty

\* Task t has entered process_upload and not left it: it can still write
\* the preview record of its key.
InProcessUpload(t) == Live(t) /\ tasks[t].pc # "created"

\* C2: at most one pipeline task per key: no reachable state holds two
\* tasks of the same key that are both inside process_upload.
AtMostOneTaskPerKey ==
    \A t1, t2 \in TaskIds :
        (InProcessUpload(t1) /\ InProcessUpload(t2) /\ KeyOf(t1) = KeyOf(t2)) => t1 = t2

\* C3: of two cancel_upload calls for a key made in a row the second returns
\* false, and a call that returns true found a task that has not finished.
SecondCancelReturnsFalse ==
    /\ (Len(cancel_log) = 2 /\ cancel_log[1].key = cancel_log[2].key) => ~cancel_log[2].ret
    /\ (cancel_log # <<>> /\ LastCancel.ret) =>
          \E t \in TaskIds : KeyOf(t) = LastCancel.key /\ Live(t)

\* C4: a cancel_upload made once the task of the key has completed naturally
\* (no task of the key is left unfinished) leaves no residual registry
\* state: the key is not in the cancellation-flag set afterwards.
LateCancelLeavesNoResidue ==
    \A t \in TaskIds :
        ( /\ Done(t) /\ tasks[t].outcome = "awaiting_approval"
          /\ \A s \in TaskIds : Live(s) => KeyOf(s) # KeyOf(t)
          /\ cancel_log # <<>> /\ LastCancel.key = KeyOf(t) /\ ~LastCancel.ret )
        => ~IsUploadCancelled(KeyOf(t))

\* C5 as stated: after every cancel_upload call, a preview read of the key
\* returns 'cancelled' with an empty protocol list.
EveryCancelWritesCancelled ==
    cancel_log # <<>> => get_preview_protocols(LastCancel.key) = CancelledEmpty

\* C5 as amended: a cancel_upload call that finds a registered, unfinished
\* task (and returns true) leaves the preview record of the key 'cancelled'
\* with an empty protocol list; a call that finds none (and returns false)
\* leaves the preview store as it was.
CancelWritesIffTaskRunning ==
    [][IsCancelCall =>
         LET e == cancel_log'[Len(cancel_log')]
         IN  IF e.ret THEN PreviewRead(previews', e.key) = CancelledEmpty
                      ELSE previews' = previews]_vars

\* C5 witness: a cancel_upload has just returned true while the task was
\* waiting for the model, and the preview read gives the cancelled record.
CancelFoundRunningTask ==
    /\ cancel_log # <<>> /\ LastCancel.ret
    /\ get_preview_protocols(LastCancel.key) = CancelledEmpty
    /\ \E t \in TaskIds : KeyOf(t) = LastCancel.key /\ tasks[t].pc = "gen_call"
                          /\ tasks[t].must_cancel

\* C6: every cancel_upload call leaves the key in the cancellation-flag set,
\* whatever it returns; it returns true exactly when, at the call, the task
\* map held a task for the key that was not done, and then that task's
\* cancellation has been requested.
CancelMarksThenReports ==
    [][IsCancelCall =>
         LET e == cancel_log'[Len(cancel_log')]
             t == active_tasks[e.key]
         IN  /\ e.key \in cancelled_uploads'
             /\ e.ret <=> (t # 0 /\ tasks[t].pc # "done")
             /\ e.ret => tasks'[t].must_cancel]_vars

\* C6 witness: cancel_upload has returned false for a key whose registered
\* task was already done, and the key is in the flag set all the same.
CancelOnDoneTaskReturnedFalse ==
    /\ cancel_log # <<>> /\ ~LastCancel.ret
    /\ active_tasks[LastCancel.key] # 0 /\ Done(active_tasks[LastCancel.key])
    /\ IsUploadCancelled(LastCancel.key)

\* C7: whenever a task ends, by any path, its key is not in the
\* cancellation-flag set in the resulting state, and once its done-callback
\* has run the task map does not hold it.
UnconditionalUnregister ==
    [][\A t \in TaskIds :
          /\ Ends(t) => KeyOf(t) \notin cancelled_uploads'
          /\ (tasks'[t].pc = "done" /\ ~tasks'[t].callback) => active_tasks'[KeyOf(t)] # t]_vars

\* C8: whenever process_upload ends with the cancelled outcome, through a
\* flag checkpoint or through CancelledError, then in the resulting state
\* the upload directory is gone, the preview record of the key is
\* 'cancelled' with no protocols, and the key is in neither registry.
CancelPathsConverge ==
    [][\A t \in TaskIds :
          (Ends(t) /\ tasks'[t].outcome = "cancelled"
                   /\ tasks'[t].via \in {"flag", "CancelledError"})
          => /\ tasks[t].upload \notin upload_dirs'
             /\ PreviewRead(previews', KeyOf(t)) = CancelledEmpty
             /\ active_tasks'[KeyOf(t)] = 0
             /\ KeyOf(t) \notin cancelled_uploads']_vars

\* C9: when the task ends failed (malformed archive, no pdf in it), a
\* preview read of the key reports a failed status.
ExtractionFailureVisible ==
    [][\A t \in TaskIds :
          (Ends(t) /\ tasks'[t].outcome = "failed")
          => PreviewRead(previews', KeyOf(t)).status \in {"failed", "error"}]_vars

\* C10: an accepted upload leaves 'processing': when its task ends, the
\* preview record of the key is awaiting approval (stored as 'completed'),
\* cancelled or failed.
UploadLeavesProcessing ==
    [][\A t \in TaskIds :
          Ends(t) => PreviewRead(previews', KeyOf(t)).status
                        \in {"completed", "awaiting_approval", "cancelled", "failed", "error"}]_vars

\* The step is an approve_and_index_protocols call that changed the state.
IsApprove == reply'.op = "approve"

\* The step is a regenerate_upload_protocols call that changed the state.
IsRegenerate == reply'.op = "regenerate"

\* C11: deletion is approve's commit: every approve call leaves no preview
\* record under the key, so an approve that follows a committed approve (the
\* record is gone) returns 'No protocols found for indexing' and calls the
\* index not at all; over a session, with approve and regenerate calls in
\* every order, the staged result is forwarded to the index at most once.
ApproveCommitsByDeletion ==
    [][IsApprove =>
         /\ previews'[reply'.key] = NoPreview
         /\ Len(index_calls') <= 1
         /\ previews[reply'.key] = NoPreview =>
               /\ ~reply'.success
               /\ reply'.message = "No protocols found for indexing"
               /\ index_calls' = index_calls]_vars

\* C11 witness: the record was forwarded by one approve, and the approve
\* that came after it has just found no record and reported so.
SecondApproveFoundNothing ==
    /\ reply.op = "approve" /\ reply.found = "not_found" /\ ~reply.success
    /\ Len(index_calls) = 1 /\ index_calls[1].key = reply.key

\* C12: approve deletes the record only on indexing success: after an
\* approve call every protocol that was staged under the key is in the
\* index or still in the preview record.
ApproveLosesNoProtocol ==
    [][IsApprove =>
         \A n \in DOMAIN previews[reply'.key].protocols :
             LET p == previews[reply'.key].protocols[n]
             IN  \/ \E c \in DOMAIN index_calls' :
                       \E m \in DOMAIN index_calls'[c].accepted :
                           index_calls'[c].accepted[m] = p
                 \/ \E m \in DOMAIN previews'[reply'.key].protocols :
                       previews'[reply'.key].protocols[m] = p]_vars

\* C13: approve on a cancelled record (no protocols) is rejected with
\* success false and 'No protocols found for indexing', and nothing is
\* forwarded to the index.
ApproveRejectsCancelled ==
    [][(IsApprove /\ previews[reply'.key] = PreviewData("cancelled", <<>>)) =>
         /\ ~reply'.success
         /\ reply'.message = "No protocols found for indexing"
         /\ index_calls' = index_calls]_vars

\* C13 witness: an approve has just read the cancelled record that a
\* successful cancel_upload left for the key, and was rejected.
ApproveOnCancelledRejected ==
    /\ reply.op = "approve" /\ reply.found = "cancelled" /\ ~reply.success
    /\ \E t \in TaskIds : KeyOf(t) = reply.key /\ tasks[t].must_cancel

\* C14: regenerate on a record of n >= 1 protocols writes a record of
\* exactly n protocols in the same order: the i-th keeps the citations and
\* the intent of the i-th original and is either its regenerated version or
\* a copy of it marked as fallback.
RegenerateDropsNothing ==
    [][(IsRegenerate /\ previews[reply'.key].protocols # <<>>) =>
         LET old == previews[reply'.key].protocols
             new == previews'[reply'.key].protocols
         IN  /\ reply'.success
             /\ Len(new) = Len(old)
             /\ \A n \in DOMAIN old :
                    /\ new[n].citations = old[n].citations
                    /\ new[n].focus = old[n].focus
                    /\ \/ new[n].origin = "regenerated"
                       \/ new[n] = [old[n] EXCEPT !.origin = "fallback",
                                                  !.title = new[n].title,
                                                  !.protocol_id = new[n].protocol_id]]_vars

\* C14 witness: a regenerate of two staged protocols in which the first
\* raised and the second did not: the record holds the fallback copy, then
\* the regenerated protocol.
RegeneratedWithOneFallback ==
    /\ reply.op = "regenerate" /\ reply.success /\ reply.count = 2
    /\ Len(previews[reply.key].protocols) = 2
    /\ previews[reply.key].protocols[1].origin = "fallback"
    /\ previews[reply.key].protocols[2].origin = "regenerated"

\* C15: regenerate succeeds exactly on a record that holds staged protocols,
\* and then overwrites that record (and no other) with a result awaiting
\* approval (stored as 'completed'); on no record or on a cancelled, empty
\* record it returns success false and leaves the preview store as it was.
RegenerateOnlyFromAwaitingApproval ==
    [][IsRegenerate =>
         LET key == reply'.key
         IN  /\ reply'.success <=> previews[key].protocols # <<>>
             /\ reply'.success =>
                   /\ previews'[key].status = "completed"
                   /\ previews'[key].protocols # <<>>
                   /\ \A k \in Keys \ {key} : previews'[k] = previews[k]
             /\ ~reply'.success => previews' = previews]_vars

\* C15 witness: a regenerate has just been refused on the cancelled record
\* of a cancelled upload, and the record is still the cancelled one.
RegenerateRefusedOnCancelled ==
    /\ reply.op = "regenerate" /\ reply.found = "cancelled" /\ ~reply.success
    /\ get_preview_protocols(reply.key) = CancelledEmpty

\* A step list as the spec's validation invariant wants it: every step has
\* an explanation of at least 10 characters and a citation index above 0.
FullyValid(steps) ==
    \A n \in DOMAIN steps : steps[n].explanation >= 10 /\ steps[n].citation > 0

\* C16: every protocol the pipeline has stored in a preview record has only
\* steps with an explanation of at least 10 characters and a citation index
\* above 0 (the stored protocol has no field that could mark it incomplete:
\* protocol_id, title, steps, citations, source_type, user_id, created_at,
\* region, organization, intent).
StoredProtocolsFullyValid ==
    \A k \in Keys : \A n \in DOMAIN previews[k].protocols :
        previews[k].protocols[n].origin = "generated"
            => FullyValid(previews[k].protocols[n].steps)

\* The first answer is one that the loop has to retry: it cannot be parsed,
\* or it fails the completeness check.
FirstAnswerRejected == ~validate_protocol_response(gen.answers[1])

\* C17: the model is invoked at most the fixed number of times; when the
\* first answer cannot be parsed or fails the completeness check, before
\* the call returns the model has been invoked a second time, with the
\* intensified instruction appended to the base prompt.
RetriedBeforeAccepting ==
    /\ Len(gen.prompts) <= max_retries
    /\ (gen.pc = "returned" /\ FirstAnswerRejected) =>
          /\ Len(gen.prompts) >= 2
          /\ gen.prompts[2] = <<"base_prompt", "intensified">>

\* The (chunk, pass) pairs of n chunks in lexicographic order: chunk order,
\* then the order of protocol_types.
LexOrder(n) ==
    [k \in 1..(n * Len(protocol_types)) |->
        <<((k - 1) \div Len(protocol_types)) + 1, ((k - 1) % Len(protocol_types)) + 1>>]

IsPrefix(a, b) == Len(a) <= Len(b) /\ \A k \in DOMAIN a : a[k] = b[k]

\* The chunks the generator is to take from a file: all of them, five at most.
ChunksTaken(arch) ==
    IF Len(Documents(arch)) * arch.nchunks > ChunkCap
    THEN ChunkCap
    ELSE Len(Documents(arch)) * arch.nchunks

\* The pass of a protocol, as its place in protocol_types.
PassOf(p) == CHOOSE j \in DOMAIN protocol_types : protocol_types[j] = p.focus

\* C18: the calls of generate_protocol_from_chunk made by a task are, at any
\* moment, an initial part of the lexicographic list of the (chunk, pass)
\* pairs of the first five chunks (so each pair is called at most once, in
\* order, and no chunk after the fifth is sent); a task that ends awaiting
\* approval, with no cancellation, has called every pair, and the protocol
\* list it stored is in that order.
GeneratorCallsInOrder ==
    \A t \in TaskIds :
        /\ IsPrefix(tasks[t].calls, LexOrder(ChunksTaken(tasks[t].arch)))
        /\ (Done(t) /\ tasks[t].outcome = "awaiting_approval") =>
              /\ tasks[t].calls = LexOrder(ChunksTaken(tasks[t].arch))
              /\ \A m, n \in DOMAIN tasks[t].protocols :
                    m < n =>
                       \/ tasks[t].protocols[m].chunk < tasks[t].protocols[n].chunk
                       \/ /\ tasks[t].protocols[m].chunk = tasks[t].protocols[n].chunk
                          /\ PassOf(tasks[t].protocols[m]) < PassOf(tasks[t].protocols[n])

\* C18 witness: a file of six chunks has gone through the generator with no
\* cancellation: twenty calls, for chunks one to five, and the twenty
\* protocols are in the preview record.
SixChunksFiveTaken ==
    \E t \in TaskIds :
        /\ Done(t) /\ tasks[t].outcome = "awaiting_approval"
        /\ Len(Documents(tasks[t].arch)) * tasks[t].arch.nchunks > ChunkCap
        /\ Len(tasks[t].calls) = ChunkCap * Len(protocol_types)
        /\ get_preview_protocols(KeyOf(t)).protocols = tasks[t].protocols
        /\ Len(tasks[t].protocols) = ChunkCap * Len(protocol_types)

\* Task t is resumed in this step at one of the generator's flag checks.
ResumedInGenerator(t) ==
    /\ tasks[t].pc \in {"gen_chunk", "gen_yield", "gen_call"}
    /\ tasks'[t].pc # tasks[t].pc
    /\ ~tasks[t].must_cancel

\* C19: when a task is resumed at a flag check of the generator (before a
\* chunk, before a model invocation, after the invocation has returned) and
\* the flag of its key is set, it makes no further model invocation, appends
\* nothing to its protocol list (the result of the invocation that has just
\* returned included), ends with the cancelled outcome, and its protocols
\* are not written to the preview record.
FlagStopsGenerator ==
    [][\A t \in TaskIds :
          (ResumedInGenerator(t) /\ KeyOf(t) \in cancelled_uploads) =>
             /\ tasks'[t].calls = tasks[t].calls
             /\ tasks'[t].protocols = tasks[t].protocols
             /\ tasks'[t].pc = "done" /\ tasks'[t].outcome = "cancelled"
             /\ previews' = previews]_vars

\* C19 witness: the flag was found set at the check after the first model
\* invocation, which had returned steps: the task ended cancelled with an
\* empty protocol list after one call, and no record holds protocols.
FlagSeenAfterInvocation ==
    \E t \in TaskIds :
        /\ Done(t) /\ tasks[t].via = "flag" /\ ~tasks[t].must_cancel
        /\ Len(tasks[t].calls) = 1 /\ tasks[t].protocols = <<>>
        /\ Response(tasks[t].arch.resp, 1, 1) = "steps"
        /\ get_preview_protocols(KeyOf(t)).protocols = <<>>

\* C20: when the call for a combination raises or gives malformed output
\* (the generator's empty fallback), and there is no cancellation, the task
\* keeps the protocols it has accumulated and goes on to the next
\* combination, or after the last one stores the accumulated list; a task
\* that ends awaiting approval has called every combination.
FailureIsolatedInGenerator ==
    [][\A t \in TaskIds :
          ( /\ tasks[t].pc = "gen_call" /\ tasks'[t].pc # "gen_call"
            /\ ~tasks[t].must_cancel /\ KeyOf(t) \notin cancelled_uploads
            /\ Response(tasks[t].arch.resp, tasks[t].i, tasks[t].j) \in {"raise", "empty"} )
          => /\ tasks'[t].protocols = tasks[t].protocols
             /\ \/ tasks'[t].pc \in {"gen_yield", "gen_chunk"}
                \/ /\ tasks'[t].outcome = "awaiting_approval"
                   /\ tasks'[t].calls = LexOrder(ChunksTaken(tasks[t].arch))
                   /\ previews'[KeyOf(t)] = PreviewData("completed", tasks[t].protocols)]_vars

\* C20 witness: in a file whose second pass gave malformed output and whose
\* third pass raised, all four passes were called and the protocols of the
\* first and of the fourth are in the preview record.
LaterPassesStillCalled ==
    \E t \in TaskIds :
        /\ Done(t) /\ tasks[t].outcome = "awaiting_approval"
        /\ Response(tasks[t].arch.resp, 1, 2) = "empty"
        /\ Response(tasks[t].arch.resp, 1, 3) = "raise"
        /\ Len(tasks[t].calls) = 4
        /\ Len(get_preview_protocols(KeyOf(t)).protocols) = 2
        /\ get_preview_protocols(KeyOf(t)).protocols[1].focus = "diagnostic"
        /\ get_preview_protocols(KeyOf(t)).protocols[2].focus = "prevention"

\* The calls of a task that gave a non-empty checklist, in call order.
NonEmptyCalls(t) ==
    SelectSeq(tasks[t].calls,
              LAMBDA c : Response(tasks[t].arch.resp, c[1], c[2]) = "steps")

\* The document a chunk was cut from: the documents are chunked in order,
\* nchunks chunks each.
DocumentOfChunk(arch, i) == ((i - 1) \div arch.nchunks) + 1

\* C21: in a task that ends awaiting approval, the protocols are, one for
\* one and in order, the calls that gave a non-empty checklist (a call that
\* gave an empty one left no protocol and did not fail the task); each
\* protocol has exactly one citation, which names the file of its chunk and
\* carries that chunk's text; and no two protocols of the task have the
\* same protocol_id.
OneProtocolPerNonEmptyResult ==
    \A t \in TaskIds :
        (Done(t) /\ tasks[t].outcome = "awaiting_approval") =>
            /\ Len(tasks[t].protocols) = Len(NonEmptyCalls(t))
            /\ \A n \in DOMAIN tasks[t].protocols :
                  LET p == tasks[t].protocols[n]
                      c == NonEmptyCalls(t)[n]
                  IN  /\ p.chunk = c[1]
                      /\ p.focus = protocol_types[c[2]]
                      /\ p.steps # <<>>
                      /\ Len(p.citations) = 1
                      /\ p.citations[1].source.doc = DocumentOfChunk(tasks[t].arch, c[1])
                      /\ p.citations[1].source.file = "pdf_ok"
                      /\ p.citations[1].excerpt = c[1]
            /\ \A m, n \in DOMAIN tasks[t].protocols :
                  m # n => tasks[t].protocols[m].protocol_id # tasks[t].protocols[n].protocol_id
            /\ get_preview_protocols(KeyOf(t)).protocols = tasks[t].protocols

\* C21 witness: a file of two documents went through the generator with no
\* cancellation; the same pass gave a protocol for several chunks, and the
\* stored list holds protocols cut from the first document and from the
\* second.
SamePassSeveralChunks ==
    \E t \in TaskIds :
        /\ Done(t) /\ tasks[t].outcome = "awaiting_approval"
        /\ \E m, n \in DOMAIN tasks[t].protocols :
              /\ m # n
              /\ tasks[t].protocols[m].focus = tasks[t].protocols[n].focus
              /\ tasks[t].protocols[m].citations[1].source.doc = 1
              /\ tasks[t].protocols[n].citations[1].source.doc = 2
        /\ get_preview_protocols(KeyOf(t)).protocols = tasks[t].protocols

\* C22: when the call for the last combination ends with no cancellation,
\* no protocol accumulated and none given by this call, the task stores a
\* preview record with an empty protocol list and ends awaiting approval,
\* not failed.
EmptyResultCompletes ==
    [][\A t \in TaskIds :
          ( /\ tasks[t].pc = "gen_call" /\ tasks'[t].pc # "gen_call"
            /\ ~tasks[t].must_cancel /\ KeyOf(t) \notin cancelled_uploads
            /\ tasks[t].calls = LexOrder(ChunksTaken(tasks[t].arch))
            /\ tasks[t].protocols = <<>>
            /\ Response(tasks[t].arch.resp, tasks[t].i, tasks[t].j) # "steps" )
          => /\ tasks'[t].pc = "done"
             /\ tasks'[t].outcome = "awaiting_approval"
             /\ tasks'[t].protocols = <<>>
             /\ previews'[KeyOf(t)].protocols = <<>>
             /\ previews'[KeyOf(t)].status \notin {"cancelled", "not_found"}]_vars

\* C22 witness: a file with one chunk, for which each of the four calls
\* gave an empty checklist, ended awaiting approval with an empty list in
\* its preview record.
NothingFoundEndedAwaitingApproval ==
    \E t \in TaskIds :
        /\ Done(t) /\ tasks[t].outcome = "awaiting_approval"
        /\ Len(tasks[t].calls) = Len(protocol_types)
        /\ \A k \in DOMAIN tasks[t].calls :
              Response(tasks[t].arch.resp, tasks[t].calls[k][1], tasks[t].calls[k][2]) = "empty"
        /\ get_preview_protocols(KeyOf(t)).status = "completed"
        /\ get_preview_protocols(KeyOf(t)).protocols = <<>>

\* The stage of process_upload a task is in, by its place in the order
\* extract, text, chunk, generate, store.
StageOf(pc) ==
    CASE pc \in {"none", "created"}                  -> 0
      [] pc = "zip_entry"                            -> 1
      [] pc \in {"pdf_file", "pdf_page"}             -> 2
      [] pc = "chunk_doc"                            -> 3
      [] pc \in {"gen_chunk", "gen_yield", "gen_call"} -> 4
      [] OTHER                                       -> 5

\* C23: a task never goes back to an earlier stage of extract, text, chunk,
\* generate, store; the preview record of its upload is written as
\* completed only in the step in which the task ends awaiting approval,
\* with no cancellation flag, after every generator call of the file has
\* been made, and holds the list the generator returned; while the task is
\* in any stage before the end there is no completed record for its upload.
StagesInOrder ==
    [][\A t \in TaskIds :
          tasks[t].pc # "none" =>
             /\ StageOf(tasks'[t].pc) >= StageOf(tasks[t].pc)
             /\ (tasks'[t].pc # "done") => previews'[KeyOf(t)].status # "completed"
             /\ ( /\ previews'[KeyOf(t)] # previews[KeyOf(t)]
                  /\ previews'[KeyOf(t)].status = "completed" )
                => /\ tasks[t].pc \notin {"done", "created"} /\ tasks'[t].pc = "done"
                   /\ tasks'[t].outcome = "awaiting_approval"
                   /\ KeyOf(t) \notin cancelled_uploads
                   /\ tasks'[t].calls = LexOrder(ChunksTaken(tasks[t].arch))
                   /\ previews'[KeyOf(t)].protocols = tasks'[t].protocols]_vars

\* C23 witness: a task has been through every stage: it is in the
\* generator, past the first chunk, holding protocols, and the preview
\* store has no record of its upload yet.
GeneratingWithNothingStored ==
    \E t \in TaskIds :
        /\ tasks[t].pc = "gen_call"
        /\ tasks[t].i > 1
        /\ tasks[t].protocols # <<>>
        /\ get_preview_protocols(KeyOf(t)).status = "not_found"

\* The number of entries of a file that are documents with usable text.
UsableCount(arch) == Cardinality({k \in DOMAIN arch.entries : arch.entries[k] = "pdf_ok"})

\* A file with a usable document and a document that is dropped.
HasUsableAndUnusable(arch) ==
    /\ UsableCount(arch) > 0
    /\ \E k \in DOMAIN arch.entries : arch.entries[k] \in {"pdf_thin", "pdf_corrupt"}

\* C24: a task whose file holds a usable document and one whose extraction
\* raises or gives too little text never ends failed; when it is in the
\* generator its calls are for the chunks of the usable document only, and
\* when it ends with no cancellation it ends awaiting approval, every
\* stored protocol citing the usable document.
UnusableDocumentDropped ==
    \A t \in TaskIds :
        (tasks[t].pc # "none" /\ HasUsableAndUnusable(tasks[t].arch)) =>
            /\ tasks[t].outcome # "failed"
            /\ \A k \in DOMAIN tasks[t].calls :
                  tasks[t].calls[k][1] <= UsableCount(tasks[t].arch) * tasks[t].arch.nchunks
            /\ (Done(t) /\ tasks[t].via \notin {"flag", "CancelledError", "unstarted", "TypeError"}) =>
                  /\ tasks[t].outcome = "awaiting_approval"
                  /\ Len(tasks[t].calls)
                        = UsableCount(tasks[t].arch) * tasks[t].arch.nchunks * Len(protocol_types)
                  /\ get_preview_protocols(KeyOf(t)).protocols = tasks[t].protocols
                  /\ tasks[t].protocols # <<>>
                  /\ \A n \in DOMAIN tasks[t].protocols :
                        tasks[t].protocols[n].citations[1].source.file = "pdf_ok"

\* C24 witness: a file whose first document has too little text and whose
\* second is usable ended awaiting approval with the protocols of the
\* second document's chunk.
ThinDocumentSkipped ==
    \E t \in TaskIds :
        /\ Done(t) /\ tasks[t].outcome = "awaiting_approval"
        /\ tasks[t].arch.entries = <<"pdf_thin", "pdf_ok">>
        /\ Len(tasks[t].calls) = Len(protocol_types)
        /\ Len(get_preview_protocols(KeyOf(t)).protocols) = Len(protocol_types)

\* C25: an accepted upload whose bytes are a single usable document goes
\* through text, chunk, generate and store as the archive holding that one
\* document does: process_upload, called with its four declared arguments
\* and not cancelled, ends awaiting approval with the document's protocols
\* in the preview record.
SingleDocumentRunsThroughPipeline ==
    \A t \in TaskIds :
        ( /\ Done(t)
          /\ tasks[t].arch \in {SingleDocument, ArchiveOfOneDocument}
          /\ tasks[t].nargs = ProcessUploadParams
          /\ tasks[t].via \notin {"flag", "CancelledError", "unstarted"} )
        => /\ tasks[t].outcome = "awaiting_approval"
           /\ Len(get_preview_protocols(KeyOf(t)).protocols) = Len(protocol_types)

\* process_upload called with its four declared arguments on the archive
\* holding one document ended awaiting approval.
ArchiveOfOneDocumentCompleted ==
    \E t \in TaskIds :
        /\ Done(t) /\ tasks[t].arch = ArchiveOfOneDocument
        /\ tasks[t].outcome = "awaiting_approval"

\* process_upload called with its four declared arguments on the bytes of
\* the document itself ended failed, with nothing in the preview store.
SingleDocumentFailedAtExtractZip ==
    \E t \in TaskIds :
        /\ Done(t) /\ tasks[t].arch = SingleDocument
        /\ tasks[t].nargs = ProcessUploadParams
        /\ tasks[t].outcome = "failed"
        /\ get_preview_protocols(KeyOf(t)).status = "not_found"

\* C26: the status a preview read returns is one of processing,
\* awaiting_approval, cancelled, failed, not_found, and the record of a task
\* that ended awaiting approval is read back with status awaiting_approval.
PreviewStatusInVocabulary ==
    /\ \A key \in Keys :
          get_preview_protocols(key).status
             \in {"processing", "awaiting_approval", "cancelled", "failed", "not_found"}
    /\ \A t \in TaskIds :
          (Done(t) /\ tasks[t].outcome = "awaiting_approval" /\ previews[KeyOf(t)] # NoPreview)
             => get_preview_protocols(KeyOf(t)).status = "awaiting_approval"

\* The record stored by a task that ended awaiting approval is read back
\* with status completed.
CompletedReadBack ==
    \E t \in TaskIds :
        /\ Done(t) /\ tasks[t].outcome = "awaiting_approval"
        /\ get_preview_protocols(KeyOf(t)).status = "completed"
        /\ get_preview_protocols(KeyOf(t)).protocols = tasks[t].protocols

\* C27: when approve forwards n valid protocols and the index rejects k of
\* them (all of them when the call as a whole fails), approve reports
\* success with protocols_indexed = n - k; the rejected protocols are not
\* in the index and the others are.
PartialIndexingIsNotFatal ==
    [][(IsApprove /\ index_calls' # index_calls) =>
         LET c == index_calls'[Len(index_calls')]
         IN  /\ reply'.success
             /\ reply'.count = Len(c.protocols) - Cardinality(c.rejected)
             /\ Len(c.accepted) = reply'.count
             /\ \A m \in DOMAIN c.protocols :
                   (m \in c.rejected) <=>
                      ~\E x \in DOMAIN index_calls' :
                          \E a \in DOMAIN index_calls'[x].accepted :
                              index_calls'[x].accepted[a] = c.protocols[m]]_vars

\* C27 witness: approve forwarded two protocols, the index rejected the
\* first and took the second, and approve reported success with one
\* protocol indexed.
OneOfTwoRejected ==
    /\ reply.op = "approve" /\ reply.success /\ reply.count = 1
    /\ Len(index_calls) = 1
    /\ index_calls[1].indexed
    /\ Len(index_calls[1].protocols) = 2
    /\ index_calls[1].rejected = {1}
    /\ index_calls[1].accepted = <<index_calls[1].protocols[2]>>

\* The step is a delete_preview_file call.
IsDelete == reply'.op = "delete"

\* C28: delete_preview_file(user, upload_id) removes the record of (user,
\* upload_id) and no other; delete_preview_file(user, None) removes every
\* record of the user; either way the records of every other user are as
\* they were.
ClearTouchesOnlyOwnRecords ==
    [][IsDelete =>
         /\ \A f \in ClearUploads :
               previews'[UploadKey(reply'.key, f)] =
                  IF reply'.found \in {None, f} THEN NoPreview
                  ELSE previews[UploadKey(reply'.key, f)]
         /\ \A u \in ClearUsers \ {reply'.key} : \A f \in ClearUploads :
               previews'[UploadKey(u, f)] = previews[UploadKey(u, f)]]_vars

\* A clear-all of user u1 has just removed three files while u1 has only
\* two upload ids: a record of user u1_x went with them.
ClearAllRemovedAnotherUsersRecord ==
    /\ reply.op = "delete" /\ reply.key = "u1" /\ reply.found = None
    /\ reply.count > Cardinality(ClearUploads)
    /\ \E f \in ClearUploads : previews[UploadKey("u1_x", f)] = NoPreview

\* The sentence endings that start in the look-ahead of a window: from the
\* raw boundary on, scan_ahead characters at most.
EndingsAhead(w) ==
    {i \in chunker.endings :
        /\ i >= w.start + chunk_size
        /\ i < w.start + chunk_size + scan_ahead
        /\ i < chunker.len}

\* C29: every window whose raw boundary (start + chunk_size) is before the
\* end of the text ends at the end of the nearest sentence ending found
\* from the raw boundary on, within the look-ahead, and at the raw boundary
\* when there is none; it never ends before its raw boundary.
WindowEndSnappedForward ==
    \A k \in DOMAIN chunker.windows :
        LET w == chunker.windows[k]
        IN  w.start + chunk_size < chunker.len =>
               /\ w.end >= w.start + chunk_size
               /\ w.end = IF EndingsAhead(w) = {} THEN w.start + chunk_size
                          ELSE Min(EndingsAhead(w)) + ending_len

\* A window of a text longer than chunk_size has ended before its raw
\* boundary, at a sentence ending that lies before it.
WindowEndedBeforeRawBoundary ==
    \E k \in DOMAIN chunker.windows :
        /\ chunker.windows[k].start + chunk_size < chunker.len
        /\ chunker.windows[k].end < chunker.windows[k].start + chunk_size
        /\ (chunker.windows[k].end - ending_len) \in chunker.endings

\* C30: is_valid of _validate_protocol_response is true exactly when the
\* parsed response is an object and either its checklist is empty, or its
\* citations array is not empty and neither the steps whose explanation
\* (white space at the ends removed) is shorter than 10 characters nor the
\* steps with citation 0 are more than half of the steps; steps with an
\* empty citations array are invalid whatever the steps hold.
ValidationCharacterised ==
    (gen.pc # "idle" /\ gen.validations # <<>>) =>
        LET data  == gen.answers[1]
            n     == Len(data.checklist)
            short == Cardinality({k \in 1..n : data.checklist[k].explanation < 10})
            cit0  == Cardinality({k \in 1..n : data.checklist[k].citation = 0})
        IN  /\ gen.validations[1] <=>
                  /\ data.kind = "json"
                  /\ \/ n = 0
                     \/ data.citations > 0 /\ 2 * short <= n /\ 2 * cit0 <= n
            /\ (data.kind = "json" /\ n > 0 /\ data.citations = 0) => ~gen.validations[1]

\* C30 witness: the first answer was an object with two steps, each with a
\* full explanation and citation 1, and an empty citations array; the
\* validation found it invalid.
CompleteStepsNoCitationsInvalid ==
    /\ gen.pc = "returned"
    /\ gen.answers[1].kind = "json"
    /\ Len(gen.answers[1].checklist) = 2
    /\ \A k \in DOMAIN gen.answers[1].checklist :
          gen.answers[1].checklist[k].explanation >= 10 /\ gen.answers[1].checklist[k].citation = 1
    /\ gen.answers[1].citations = 0
    /\ gen.validations = <<FALSE>>

\* The windows taken so far advance through the text: the first starts at
\* 0, a window that stops before the end of the text is longer than the
\* overlap, and each later window starts overlap characters before the end
\* of the one before it, after that one's start.
WindowsAdvance ==
    \A k \in DOMAIN chunker.windows :
        LET w == chunker.windows[k]
        IN  /\ (k = 1) => w.start = 0
            /\ (w.end < chunker.len) => w.end >= w.start + overlap + 1
            /\ (k > 1) => /\ w.start = chunker.windows[k - 1].end - overlap
                          /\ w.start > chunker.windows[k - 1].start

\* Once the loop is left every character of the text is in a window.
TextCovered ==
    (chunker.pc = "returned") =>
        \A c \in 0..(chunker.len - 1) :
            \E k \in DOMAIN chunker.windows :
                chunker.windows[k].start <= c /\ c < chunker.windows[k].end

\* The chunks emitted have more than 100 characters after strip(), are
\* numbered 0, 1, 2, ... and lie in text order.
ChunksNumberedInOrder ==
    \A k \in DOMAIN chunker.chunks :
        /\ chunker.chunks[k].char_count > 100
        /\ chunker.chunks[k].chunk_index = k - 1
        /\ (k > 1) => chunker.chunks[k].start > chunker.chunks[k - 1].start

\* C31: create_semantic_chunks leaves its loop on every text; on the way
\* each window starts after the one before it, exactly overlap characters
\* before that one's end (a window that does not reach the end of the text
\* ends at least overlap + 1 characters after its start), every character
\* of the text is in a window, and every chunk emitted has more than 100
\* characters after strip(), with chunk_index 0, 1, 2, ... in text order.
ChunkerTerminates ==
    /\ <>(chunker.pc = "returned")
    /\ [](WindowsAdvance /\ TextCovered /\ ChunksNumberedInOrder)

\* C31 witness: a text of 4200 characters has been cut into three windows,
\* the first ending at a sentence ending, and three chunks; the loop is
\* left.
ThreeWindowsReturned ==
    /\ chunker.pc = "returned"
    /\ Len(chunker.windows) = 3
    /\ (chunker.windows[1].end - ending_len) \in chunker.endings
    /\ chunker.windows[2].start = chunker.windows[1].end - overlap
    /\ Len(chunker.chunks) = 3
    /\ chunker.windows[3].end >= chunker.len

\* The staged protocols that have a title and at least one step, in order.
TitledWithSteps(protocols) ==
    SelectSeq(protocols, LAMBDA p : p.title # "" /\ p.steps # <<>>)

\* C32: an approve forwards to the index, in one call, exactly the staged
\* protocols that have a title and a non-empty step list (none that lacks
\* either, every one that has both), and does not call the index when no
\* staged protocol has both.
ApproveRevalidates ==
    [][IsApprove =>
         LET staged == previews[reply'.key].protocols
         IN  IF TitledWithSteps(staged) = <<>>
             THEN index_calls' = index_calls
             ELSE /\ Len(index_calls') = Len(index_calls) + 1
                  /\ index_calls'[Len(index_calls')].protocols = TitledWithSteps(staged)
                  /\ \A c \in DOMAIN index_calls : index_calls'[c] = index_calls[c]]_vars

\* C32 witness: two protocols with steps were staged, the second with a
\* blank title; approve forwarded the first alone.
UntitledProtocolNotForwarded ==
    /\ reply.op = "approve" /\ reply.success
    /\ Len(index_calls) = 1
    /\ Len(index_calls[1].protocols) = 1
    /\ index_calls[1].protocols[1].title # ""
    /\ \E t \in TaskIds :
          /\ Done(t) /\ KeyOf(t) = reply.key
          /\ Len(tasks[t].protocols) = 2
          /\ tasks[t].protocols[2].title = "" /\ tasks[t].protocols[2].steps # <<>>
          /\ tasks[t].protocols[1] = index_calls[1].protocols[1]

\* C33: the status poll reports processing exactly while a task that is
\* registered for the key is not done, and reports awaiting_approval only
\* for a key whose latest task ended awaiting approval: not for a key that
\* was never uploaded, nor after a cancelled or failed run.
StatusPollMatchesOutcome ==
    \A key \in Keys :
        /\ (get_upload_status(key) = "processing") <=>
              (active_tasks[key] # 0 /\ Live(active_tasks[key]))
        /\ (get_upload_status(key) = "awaiting_approval") =>
              \E t \in TaskIds :
                  /\ Done(t) /\ KeyOf(t) = key
                  /\ tasks[t].outcome = "awaiting_approval"
                  /\ \A t2 \in TaskIds : (tasks[t2].pc # "none" /\ KeyOf(t2) = key) => t2 <= t

\* The (user_id, upload_id) pairs that have a record file in the clearing
\* sessions.
ClearPairs == {p \in ClearUsers \X (ClearUploads \cup PathUploads) : UploadKey(p[1], p[2]) \in ClearKeys}

\* C34: an operation on one (user_id, upload_id) pair leaves the entries of
\* every other pair as they were: a delete of the record of one pair
\* changes the record of no other pair.
PairsAreIsolated ==
    [][(IsDelete /\ reply'.found # None) =>
         \A p \in ClearPairs :
             p # <<reply'.key, reply'.found>> =>
                 previews'[UploadKey(p[1], p[2])] = previews[UploadKey(p[1], p[2])]]_vars

\* C35: the documents one approve wrote to the user's index are still
\* there after an approve of a different upload of the same user: every
\* protocol a bulk call accepted is in the index under its protocol_id,
\* unless a later call for the same upload wrote it again.
IndexHoldsEveryApprovedUpload ==
    \A c \in DOMAIN index_calls :
        (\A c2 \in DOMAIN index_calls : c2 > c => index_calls[c2].key # index_calls[c].key)
        => \A n \in DOMAIN index_calls[c].accepted :
               \E d \in IndexedDocuments :
                   /\ d._id = index_calls[c].accepted[n].protocol_id
                   /\ d.upload = index_calls[c].key

\* C36: while an accepted upload's task has not ended, a preview read for
\* its key does not return a completed record: the only completed record
\* there could be is the one an earlier run left under the key.
NoStalePreviewWhileProcessing ==
    \A t \in TaskIds :
        Live(t) => get_preview_protocols(KeyOf(t)).status # "completed"

\* C37: every task that was created and has not ended is the task the task
\* map holds under its key: no registration, cleanup or done-callback of
\* another task overwrites or removes its entry.
RegistryHoldsEveryLiveTask ==
    \A t \in TaskIds : Live(t) => active_tasks[KeyOf(t)] = t

\* C38: a key is in the cancellation-flag set only while a task of the key
\* is registered and has not ended, and an upload is never accepted with
\* the flag of its key set.
FlagOnlyWhileTaskRuns ==
    [][/\ \A key \in cancelled_uploads' :
             active_tasks'[key] # 0 /\ tasks'[active_tasks'[key]].pc # "done"
       /\ ntasks' = ntasks + 1 => UploadKey(tasks'[ntasks'].user, tasks'[ntasks'].upload) \notin cancelled_uploads']_vars

\* C39: every protocol held in a preview record has at least one step,
\* whatever pipeline runs and regenerate calls came before.
StagedProtocolsHaveSteps ==
    \A key \in DOMAIN previews :
        \A n \in DOMAIN previews[key].protocols :
            previews[key].protocols[n].steps # <<>>

\* C40: an approve that is rejected (success false, nothing indexed) leaves
\* the preview record of its key as it was.
RejectedApproveKeepsRecord ==
    [][(IsApprove /\ ~reply'.success) =>
         /\ index_calls' = index_calls
         /\ previews'[reply'.key] = previews[reply'.key]]_vars

====
